---- MODULE Spec2Model ----
(***************************************************************************)
(* A model of velox/common/memory/MemoryPool.cpp: the pool tree            *)
(* (MemoryPool) and the accounting operations of MemoryPoolImpl.           *)
(*                                                                         *)
(* MemoryManager (the quota arbiter), MemoryUsageTracker and               *)
(* MemoryAllocator are collaborators whose code is not in                  *)
(* MemoryPool.cpp; they are modelled from their specification.             *)
(*                                                                         *)
(* Every MemoryPoolImpl operation is a sequence of steps on shared state   *)
(* (tracker, local usage, manager), so a call in progress is a thread's    *)
(* list of remaining steps, todo[t]; steps of different threads            *)
(* interleave.                                                             *)
(***************************************************************************)
EXTENDS Integers, Sequences, FiniteSets

\* ---------------------------------------------------------------- bounds
MaxSize == 4
\* calls of reserve and release
MaxCalls == 3
\* calls of the allocating and freeing operations
MaxOpCalls == 2
\* calls of addChild
MaxAdds == 4
\* calls of visitChildren
MaxVisits == 2
\* the sizes getPreferredSize is asked for
MaxPreferred == 200
\* pages asked of allocateNonContiguous and allocateContiguous; bytes are
\* counted in pages there
MaxPages == 4

\* memoryManager_->getMemoryQuota()
Quota == 6

\* options.alignment
Alignment == 2

\* options.capacity, where the root's tracker is given one
Capacity == 3

\* two threads call into the pools
Threads == {1, 2}
\* the pools: 0 is the root
PoolIds == {0, 1, 2, 3}
Sizes == 1..MaxSize
None == -1
\* the names children are given
Names == {"a", "b"}
Kinds == {"leaf", "aggregate"}

VARIABLES
  \* --- MemoryPool (tree)
  status,      \* per pool id: "none" (not created), "alive", "dying" (no strong
               \* reference is left, the destructor runs), "dead"
  parentOf,    \* parent_ of every pool (None for a root)
  nameOf,      \* name_
  kindOf,      \* kind_
  children,    \* children_: per pool, name -> child (None: no entry)
  refs,        \* the strong references to the pool (its shared_ptr use count)
  ext,         \* those of them that callers hold
  dtor,        \* per dying pool: how far its destructor has come
  leakCheck,   \* FLAGS_velox_memory_leak_check_enabled
  fatal,       \* the checks that have failed
  \* --- the last addChild: its arguments and what it returned
  addCall, adds,
  readers,     \* childrenMutex_ of every pool: the threads that hold it shared
  visit,       \* per thread: its call of visitChildren
  visits,      \* number of calls of visitChildren started
  cbRuns,      \* per pool: how often destructionCb_ has been invoked
  preferred,   \* the last call of getPreferredSize: its argument and its result
  trkCap,      \* per tracker: its capacity (None: no capacity configured)
  subtreeLock, \* subtreeUsageMutex_ of every pool: the threads that hold it shared
  \* --- MemoryPoolImpl (accounting)
  localCur,    \* localMemoryUsage_ current bytes, per pool
  subtreeCur,  \* subtreeMemoryUsage_ current bytes, per pool
  \* --- MemoryUsageTracker, one per pool, linked as the pools are
  trkCur, trkMax, trkCum,
  \* --- MemoryManager
  used,
  \* --- the calls in progress
  call,        \* per thread: the operation called and its arguments
  todo,        \* per thread: the steps the call has still to take
  result,      \* per thread: "none" while running, else how the call ended
  calls,       \* number of calls started
  \* --- bookkeeping of the callers (not program state)
  held,        \* per pool and size: reservations that succeeded and are unreleased
  dUsed,       \* per thread: what the call in progress has added to used
  dLocal,      \* per thread: what it has added to its pool's local usage
  dTrk         \* per thread, per pool: what it has added to trkCur

\* what the operations on the tree leave alone
restVars == <<preferred, trkCap, subtreeLock>>

treeVars == <<status, parentOf, nameOf, kindOf, children, refs, ext, dtor, leakCheck,
              fatal, addCall, adds, readers, visit, visits, cbRuns, restVars>>

vars == <<treeVars, localCur, subtreeCur, trkCur, trkMax, trkCum, used,
          call, todo, result, calls, held, dUsed, dLocal, dTrk>>

acctVars == <<localCur, subtreeCur, trkCur, trkMax, trkCum, used>>

\* ---------------------------------------------------------------- helpers
Max(a, b) == IF a >= b THEN a ELSE b

\* every tracker is linked to every other
ChainAll(par, p) == PoolIds

RECURSIVE Chain(_, _)
\* p and its ancestors, following parent_
Chain(par, p) == IF p = None THEN {} ELSE {p} \cup Chain(par, par[p])

\* the pools of the subtree below p (p excluded)
Descendants(par, p) == {q \in PoolIds : q # p /\ p \in Chain(par, q)}

RECURSIVE SumOver(_, _)
SumOver(f, S) == IF S = {} THEN 0
                 ELSE LET x == CHOOSE y \in S : TRUE
                      IN f[x] + SumOver(f, S \ {x})

\* kind_ of the pools of that tree
TreeKind == [p \in PoolIds |-> IF p \in {0, 1} THEN "aggregate" ELSE "leaf"]

\* the pools that callers allocate from
LeafPools == {p \in PoolIds : TreeKind[p] = "leaf"}

\* the tree the accounting operations run on: root 0 (aggregate), pool 1 an
\* aggregate under the root, pool 2 a leaf under pool 1, pool 3 a leaf under
\* the root
TreeParent == [p \in PoolIds |-> IF p = 0 THEN None ELSE IF p = 2 THEN 1 ELSE 0]

\* name_ of the pools of that tree
TreeName == [p \in PoolIds |-> IF p = 0 THEN "root" ELSE IF p = 3 THEN "b" ELSE "a"]

\* children_ of the pools of that tree
TreeChildren ==
  [p \in PoolIds |->
    [n \in Names |->
      IF \E c \in PoolIds : TreeParent[c] = p /\ TreeName[c] = n
      THEN CHOOSE c \in PoolIds : TreeParent[c] = p /\ TreeName[c] = n
      ELSE None]]

\* ---------------------------------------------------------------- steps
Step(k, n) == [k |-> k, n |-> n, e |-> "none"]
throw(e) == <<[k |-> "throw", n |-> 0, e |-> e]>>
return == <<Step("return", 0)>>

sizeAlign(size) ==
  LET remainder == size % Alignment
  IN IF remainder = 0 THEN size ELSE size + Alignment - remainder

\* the tracker is not told of the reservation
reserveUntracked(size) ==
  <<Step("localIncrement", size), Step("managerReserve", size)>>

\* MemoryPoolImpl::reserve up to the manager's answer
reserve(size) ==
  <<Step("trackerUpdate", size), Step("localIncrement", size),
    Step("managerReserve", size)>>

\* MemoryPoolImpl::release
release(size) ==
  <<Step("managerRelease", size), Step("localIncrement", -size),
    Step("trackerUpdate", -size)>>

\* a denied reservation waits until another call has released the bytes
reserveAwaitsRelease(size, thrown) == <<Step("awaitRelease", size)>>

\* MemoryPoolImpl::reserve after the manager denied the reservation; thrown is
\* the way of the exception out of the operation
reserveDenied(size, thrown) == release(size) \o thrown

\* MemoryPoolImpl::free
free(size) == <<Step("freeBytes", sizeAlign(size))>> \o release(sizeAlign(size))

\* MemoryPoolImpl::allocate up to the allocator's answer
allocate(size) ==
  reserve(sizeAlign(size)) \o <<Step("allocateBytes", sizeAlign(size))>>

\* MemoryPoolImpl::allocate after the allocator returned no buffer
allocateFailed(alignedSize) == release(alignedSize) \o throw("AllocationFailure")

\* MemoryPoolImpl::allocateZeroFilled up to the allocator's answer
allocateZeroFilled(numEntries, sizeEach) ==
  reserve(sizeAlign(sizeEach * numEntries))
    \o <<Step("allocateZeroFilled", sizeAlign(sizeEach * numEntries))>>

\* MemoryPoolImpl::allocateZeroFilled after the allocator returned no buffer
allocateZeroFilledFailed(alignedSize) ==
  release(alignedSize) \o throw("AllocationFailure")

\* MemoryPoolImpl::reallocate up to the allocator's answer
reallocate(size, newSize) ==
  reserve(sizeAlign(newSize)) \o <<Step("reallocateBytes", sizeAlign(newSize))>>

\* MemoryPoolImpl::reallocate after the allocator returned no new buffer
reallocateFailed(size, newSize) ==
  free(sizeAlign(size)) \o release(sizeAlign(newSize)) \o throw("AllocationFailure")

\* the old buffer is never freed
reallocateKeepsOld(ptr, size) == <<>>

\* MemoryPoolImpl::reallocate with the new buffer: a null p returns at once,
\* else the old buffer is copied and freed
reallocateCopy(ptr, size) == IF ~ptr THEN <<>> ELSE free(sizeAlign(size))

\* the reservation callback handed to the allocator by allocateNonContiguous
\* and allocateContiguous: reserve if preAlloc, else release
reservationCB(allocBytes, preAlloc) ==
  IF preAlloc THEN reserve(allocBytes) ELSE release(allocBytes)

RECURSIVE unwind(_, _)
\* the allocator gives back n chunks it had reserved, one callback each
unwind(n, chunkBytes) ==
  IF n = 0 THEN <<>>
  ELSE reservationCB(chunkBytes, FALSE) \o unwind(n - 1, chunkBytes)

\* MemoryPoolImpl::allocateNonContiguous: the allocator is entered with
\* numPages still to secure
allocateNonContiguous(numPages) == <<Step("allocatorChunk", numPages)>>

\* MemoryPoolImpl::allocateContiguous: the allocator is entered and reserves
\* the one extent
allocateContiguous(numPages) ==
  reservationCB(numPages, TRUE) \o <<Step("allocatorExtent", numPages)>>

\* ---------------------------------------------------------------- state
Idle(t) == todo[t] = <<>>
\* bytes: what getCurrentBytes has read;
\* denied: the manager denied the call's reservation; capped: a tracker
\* rejected its update; noBuffer: the allocator
\* returned no buffer to it; freed: the call has freed the buffer it was given;
\* outEmpty, outPool: the descriptor 'out' handed to a page allocation, and
\* owned: whether it carried an owner when it was handed over
\* getPreferredSize has not been called
NoPreferred == [size |-> None, result |-> None]

NoAdd == [pool |-> None, name |-> "none", result |-> "none", child |-> None]

\* pc: where the call of visitChildren is; snapshot: the local vector
\* 'children'; rest: the part of it the loop has still to visit; visited: how
\* often the visitor was invoked per child; kept: the references of the vector
\* not yet given up; destroying: the child whose destructor the thread runs;
\* added: the visitor has called addChild on the visited pool
NoVisit == [pool |-> None, pc |-> "idle", snapshot |-> {}, rest |-> {},
            visited |-> [c \in PoolIds |-> 0], kept |-> {}, destroying |-> None,
            added |-> FALSE, done |-> FALSE]

NoCall == [op |-> "none", pool |-> None, size |-> 0, newSize |-> 0, ptr |-> FALSE,
           bytes |-> 0, denied |-> FALSE, capped |-> FALSE, noBuffer |-> FALSE, freed |-> FALSE,
           outEmpty |-> TRUE, outPool |-> None, owned |-> FALSE]
HeldSizes == 1..(Max(MaxSize, MaxPages) + Alignment)
ZeroHeld == [p \in PoolIds |-> [s \in HeldSizes |-> 0]]

\* no byte is charged anywhere
InitUsage ==
  /\ localCur = [p \in PoolIds |-> 0]
  /\ subtreeCur = [p \in PoolIds |-> 0]
  /\ trkCur = [p \in PoolIds |-> 0]
  /\ trkMax = [p \in PoolIds |-> 0]
  /\ trkCum = [p \in PoolIds |-> 0]
  /\ used = 0

\* no call is in progress and nothing is charged
InitAccounting ==
  /\ InitUsage
  /\ call = [t \in Threads |-> NoCall]
  /\ todo = [t \in Threads |-> <<>>]
  /\ result = [t \in Threads |-> "none"]
  /\ calls = 0
  /\ held = ZeroHeld
  /\ dUsed = [t \in Threads |-> 0]
  /\ dLocal = [t \in Threads |-> 0]
  /\ dTrk = [t \in Threads |-> [p \in PoolIds |-> 0]]

\* the tree of four pools has been built with addChild; callers hold one
\* reference to each pool
Init ==
  /\ status = [p \in PoolIds |-> "alive"]
  /\ parentOf = TreeParent
  /\ nameOf = TreeName
  /\ kindOf = TreeKind
  /\ children = TreeChildren
  /\ refs = [p \in PoolIds |-> 1 + Cardinality({c \in PoolIds : TreeParent[c] = p})]
  /\ ext = [p \in PoolIds |-> 1]
  /\ dtor = [p \in PoolIds |-> "none"]
  /\ leakCheck = TRUE
  /\ fatal = {}
  /\ addCall = NoAdd
  /\ adds = 0
  /\ readers = [p \in PoolIds |-> {}]
  /\ visit = [t \in Threads |-> NoVisit]
  /\ visits = 0
  /\ cbRuns = [p \in PoolIds |-> 0]
  /\ preferred = NoPreferred
  /\ trkCap = [p \in PoolIds |-> None]
  /\ subtreeLock = [p \in PoolIds |-> {}]
  /\ InitAccounting

\* only the root exists, created by the memory manager, which holds it
InitTree ==
  /\ status = [p \in PoolIds |-> IF p = 0 THEN "alive" ELSE "none"]
  /\ parentOf = [p \in PoolIds |-> None]
  /\ nameOf = [p \in PoolIds |-> IF p = 0 THEN "root" ELSE "none"]
  /\ kindOf = [p \in PoolIds |-> IF p = 0 THEN "aggregate" ELSE "none"]
  /\ children = [p \in PoolIds |-> [n \in Names |-> None]]
  /\ refs = [p \in PoolIds |-> IF p = 0 THEN 1 ELSE 0]
  /\ ext = [p \in PoolIds |-> IF p = 0 THEN 1 ELSE 0]
  /\ dtor = [p \in PoolIds |-> "none"]
  /\ leakCheck \in BOOLEAN
  /\ fatal = {}
  /\ addCall = NoAdd
  /\ adds = 0
  /\ readers = [p \in PoolIds |-> {}]
  /\ visit = [t \in Threads |-> NoVisit]
  /\ visits = 0
  /\ cbRuns = [p \in PoolIds |-> 0]
  /\ preferred = NoPreferred
  /\ trkCap = [p \in PoolIds |-> None]
  /\ subtreeLock = [p \in PoolIds |-> {}]
  /\ InitAccounting

\* a thread enters an operation of pool p
Begin(t, c, steps, limit) ==
  /\ Idle(t)
  /\ calls < limit
  /\ calls' = calls + 1
  /\ call' = [call EXCEPT ![t] = c]
  /\ todo' = [todo EXCEPT ![t] = steps]
  /\ result' = [result EXCEPT ![t] = "none"]
  /\ dUsed' = [dUsed EXCEPT ![t] = 0]
  /\ dLocal' = [dLocal EXCEPT ![t] = 0]
  /\ dTrk' = [dTrk EXCEPT ![t] = [p \in PoolIds |-> 0]]
  /\ UNCHANGED <<treeVars, acctVars>>

Take(p, s) == [held EXCEPT ![p][s] = @ - 1]
Give(p, s) == [held EXCEPT ![p][s] = @ + 1]

\* reserve(size) called on pool p
Reserve(t, p, size) ==
  /\ Begin(t, [NoCall EXCEPT !.op = "reserve", !.pool = p, !.size = size],
           reserve(size) \o return, MaxCalls)
  /\ UNCHANGED held

\* release(size) called on pool p, for a reservation of that size that succeeded
Release(t, p, size) ==
  /\ held[p][size] > 0
  /\ Begin(t, [NoCall EXCEPT !.op = "release", !.pool = p, !.size = size],
           release(size) \o return, MaxCalls)
  /\ held' = Take(p, size)

\* allocate(size) called on pool p
Allocate(t, p, size) ==
  /\ Begin(t, [NoCall EXCEPT !.op = "allocate", !.pool = p, !.size = size],
           allocate(size) \o return, MaxOpCalls)
  /\ UNCHANGED held

\* allocateZeroFilled(numEntries, sizeEach) called on pool p
AllocateZeroFilled(t, p, numEntries, sizeEach) ==
  /\ numEntries * sizeEach <= MaxSize
  /\ Begin(t, [NoCall EXCEPT !.op = "allocateZeroFilled", !.pool = p,
                             !.size = numEntries * sizeEach],
           allocateZeroFilled(numEntries, sizeEach) \o return, MaxOpCalls)
  /\ UNCHANGED held

\* free(p, size) called on pool p for a buffer it allocated with that size
Free(t, p, size) ==
  /\ held[p][sizeAlign(size)] > 0
  /\ Begin(t, [NoCall EXCEPT !.op = "free", !.pool = p, !.size = size, !.ptr = TRUE],
           free(size) \o return, MaxOpCalls)
  /\ held' = Take(p, sizeAlign(size))

\* reallocate(p, size, newSize) called on pool p: ptr tells whether p is a
\* buffer (of that size, allocated from the pool) or nullptr
Reallocate(t, p, ptr, size, newSize) ==
  /\ ptr => (size > 0 /\ held[p][sizeAlign(size)] > 0)
  /\ Begin(t, [NoCall EXCEPT !.op = "reallocate", !.pool = p, !.ptr = ptr,
                             !.size = size, !.newSize = newSize],
           reallocate(size, newSize) \o return, MaxOpCalls)
  /\ held' = IF ptr THEN Take(p, sizeAlign(size)) ELSE held

\* allocateNonContiguous(numPages, out, minSizeClass) called on pool p; owned
\* tells whether 'out' already carries an owner
AllocateNonContiguous(t, p, numPages, owned) ==
  /\ numPages > 0
  /\ Begin(t, [NoCall EXCEPT !.op = "allocateNonContiguous", !.pool = p,
                             !.size = numPages, !.owned = owned,
                             !.outEmpty = ~owned,
                             !.outPool = IF owned THEN p ELSE None],
           allocateNonContiguous(numPages) \o return, MaxOpCalls)
  /\ UNCHANGED held

\* allocateContiguous(numPages, out) called on pool p
AllocateContiguous(t, p, numPages, owned) ==
  /\ numPages > 0
  /\ Begin(t, [NoCall EXCEPT !.op = "allocateContiguous", !.pool = p,
                             !.size = numPages, !.owned = owned,
                             !.outEmpty = ~owned,
                             !.outPool = IF owned THEN p ELSE None],
           allocateContiguous(numPages) \o return, MaxOpCalls)
  /\ UNCHANGED held

\* ---------------------------------------------------------------- the steps
Pool(t) == call[t].pool
Next1(t) == Head(todo[t])
At(t, k) == todo[t] # <<>> /\ Next1(t).k = k
Advance(t) == todo' = [todo EXCEPT ![t] = Tail(@)]

RECURSIVE Rejecting(_, _)
\* MemoryUsageTracker::update(delta) going up from the tracker of pool p: the
\* first tracker whose capacity currentBytes + delta would exceed (None if no
\* tracker rejects)
Rejecting(p, delta) ==
  IF p = None THEN None
  ELSE IF trkCap[p] # None /\ trkCur[p] + delta > trkCap[p] THEN p
  ELSE Rejecting(parentOf[p], delta)

\* the trackers that commit the delta of an update on the tracker of pool p:
\* each tracker commits and then hands the delta to its parent, so those
\* below a rejecting tracker have committed when it rejects
Committing(p, delta) ==
  IF Rejecting(p, delta) = None THEN Chain(parentOf, p)
  ELSE Chain(parentOf, p) \ Chain(parentOf, Rejecting(p, delta))

\* MemoryUsageTracker::update(delta) on the tracker of the call's pool: commits
\* the delta there and in the ancestor trackers, up to a tracker that rejects
\* it; the rejection leaves the pool's operation as an exception
TrackerUpdate(t) ==
  /\ At(t, "trackerUpdate")
  /\ LET delta == Next1(t).n
         chain == Committing(Pool(t), delta)
     IN /\ trkCur' = [q \in PoolIds |-> IF q \in chain THEN trkCur[q] + delta ELSE trkCur[q]]
        /\ trkCum' = [q \in PoolIds |->
                        IF q \in chain /\ delta > 0 THEN trkCum[q] + delta ELSE trkCum[q]]
        /\ trkMax' = [q \in PoolIds |->
                        IF q \in chain THEN Max(trkMax[q], trkCur[q] + delta) ELSE trkMax[q]]
        /\ dTrk' = [dTrk EXCEPT ![t] =
                        [q \in PoolIds |-> IF q \in chain THEN @[q] + delta ELSE @[q]]]
        /\ IF Rejecting(Pool(t), delta) = None
           THEN Advance(t) /\ UNCHANGED call
           ELSE /\ todo' = [todo EXCEPT ![t] = throw("TrackerCapacityExceeded")]
                /\ call' = [call EXCEPT ![t].capped = TRUE]
  /\ UNCHANGED <<treeVars, localCur, subtreeCur, used, result, calls, held,
                 dUsed, dLocal>>

\* localMemoryUsage_.incrementCurrentBytes(n)
LocalIncrement(t) ==
  /\ At(t, "localIncrement")
  /\ localCur' = [localCur EXCEPT ![Pool(t)] = @ + Next1(t).n]
  /\ dLocal' = [dLocal EXCEPT ![t] = @ + Next1(t).n]
  /\ Advance(t)
  /\ UNCHANGED <<treeVars, subtreeCur, trkCur, trkMax, trkCum, used, call,
                 result, calls, held, dUsed, dTrk>>

\* the chunks the allocator of allocateNonContiguous has reserved when the
\* reservation of the next one is denied
ChunksReserved(t) ==
  LET rest == Tail(todo[t])
  IN IF rest # <<>> /\ Head(rest).k = "allocatorChunk"
     THEN call[t].size - Head(rest).n - 1
     ELSE 0

\* the way of the CapacityExceeded thrown by reserve: straight to the caller,
\* or, thrown in the reservation callback, through the allocator, which gives
\* back what it had reserved and leaves 'out' empty
Thrown(t) ==
  IF call[t].op \in {"allocateNonContiguous", "allocateContiguous"}
  THEN unwind(ChunksReserved(t), 1)
         \o <<[k |-> "allocatorFailed", n |-> 0, e |-> "CapacityExceeded"]>>
  ELSE throw("CapacityExceeded")

\* MemoryManager::reserve(size): commits iff used + size <= quota
managerReserve(u, size) == u + size <= Quota

\* memoryManager_->reserve(size) and the branch of MemoryPoolImpl::reserve on it
ManagerReserve(t) ==
  /\ At(t, "managerReserve")
  /\ LET size == Next1(t).n
     IN IF managerReserve(used, size)
        THEN /\ used' = used + size
             /\ dUsed' = [dUsed EXCEPT ![t] = @ + size]
             /\ Advance(t)
             /\ UNCHANGED call
        ELSE /\ UNCHANGED <<used, dUsed>>
             /\ todo' = [todo EXCEPT ![t] = reserveDenied(size, Thrown(t))]
             /\ call' = [call EXCEPT ![t].denied = TRUE]
  /\ UNCHANGED <<treeVars, localCur, subtreeCur, trkCur, trkMax, trkCum,
                 result, calls, held, dLocal, dTrk>>

\* MemoryManager::release(size): subtracts size from used; used going negative is
\* an invariant violation, raised with the subtraction applied or not
ManagerRelease(t) ==
  /\ At(t, "managerRelease")
  /\ LET size == Next1(t).n
     IN IF used - size >= 0
        THEN /\ used' = used - size
             /\ dUsed' = [dUsed EXCEPT ![t] = @ - size]
             /\ Advance(t)
        ELSE /\ \E applied \in BOOLEAN :
                  /\ used' = IF applied THEN used - size ELSE used
                  /\ dUsed' = [dUsed EXCEPT ![t] = IF applied THEN @ - size ELSE @]
             /\ todo' = [todo EXCEPT ![t] = throw("InvariantViolation")]
  /\ UNCHANGED <<treeVars, localCur, subtreeCur, trkCur, trkMax, trkCum, call,
                 result, calls, held, dLocal, dTrk>>

\* allocator_->allocateBytes(alignedSize, alignment_) in allocate, and the branch
\* on its answer: the allocator returns a buffer or nullptr
AllocateBytes(t) ==
  /\ At(t, "allocateBytes")
  /\ \E buffer \in BOOLEAN :
       IF buffer THEN Advance(t) /\ UNCHANGED call
       ELSE /\ todo' = [todo EXCEPT ![t] = allocateFailed(Next1(t).n)]
            /\ call' = [call EXCEPT ![t].noBuffer = TRUE]
  /\ UNCHANGED <<treeVars, acctVars, result, calls, held, dUsed, dLocal, dTrk>>

\* allocator_->allocateZeroFilled(alignedSize) in allocateZeroFilled, and the
\* branch on its answer
AllocatorZeroFilled(t) ==
  /\ At(t, "allocateZeroFilled")
  /\ \E buffer \in BOOLEAN :
       IF buffer THEN Advance(t) /\ UNCHANGED call
       ELSE /\ todo' = [todo EXCEPT ![t] = allocateZeroFilledFailed(Next1(t).n)]
            /\ call' = [call EXCEPT ![t].noBuffer = TRUE]
  /\ UNCHANGED <<treeVars, acctVars, result, calls, held, dUsed, dLocal, dTrk>>

\* allocator_->allocateBytes(alignedNewSize, alignment_) in reallocate, and the
\* branches on its answer and on p
ReallocateBytes(t) ==
  /\ At(t, "reallocateBytes")
  /\ \E newP \in BOOLEAN :
       IF newP
       THEN /\ todo' = [todo EXCEPT ![t] =
                          reallocateCopy(call[t].ptr, call[t].size) \o Tail(@)]
            /\ UNCHANGED call
       ELSE /\ todo' = [todo EXCEPT ![t] =
                          reallocateFailed(call[t].size, call[t].newSize)]
            /\ call' = [call EXCEPT ![t].noBuffer = TRUE]
  /\ UNCHANGED <<treeVars, acctVars, result, calls, held, dUsed, dLocal, dTrk>>

\* allocator_->freeBytes(p, alignedSize)
FreeBytes(t) ==
  /\ At(t, "freeBytes")
  /\ Advance(t)
  /\ call' = [call EXCEPT ![t].freed = TRUE]
  /\ UNCHANGED <<treeVars, acctVars, result, calls, held, dUsed, dLocal, dTrk>>

\* allocator_->allocateNonContiguous: with pages left to secure the allocator
\* reserves the next chunk through the callback, or fails and gives back the
\* chunks it had reserved; with none left it returns true and 'out' holds
\* the pages
AllocatorChunk(t) ==
  /\ At(t, "allocatorChunk")
  /\ LET left == Next1(t).n
     IN IF left = 0
        THEN /\ todo' = [todo EXCEPT ![t] = <<Step("allocated", 0)>> \o Tail(@)]
             /\ call' = [call EXCEPT ![t].outEmpty = FALSE]
        ELSE /\ \E goOn \in BOOLEAN :
                  todo' = [todo EXCEPT ![t] =
                    IF goOn
                    THEN reservationCB(1, TRUE)
                           \o <<Step("allocatorChunk", left - 1)>> \o Tail(@)
                    ELSE unwind(call[t].size - left, 1)
                           \o <<Step("allocatorFailed", 0)>>]
             /\ UNCHANGED call
  /\ UNCHANGED <<treeVars, acctVars, result, calls, held, dUsed, dLocal, dTrk>>

\* allocator_->allocateContiguous after its one reservation: it maps the
\* extent and returns true, or fails and gives the reservation back
AllocatorExtent(t) ==
  /\ At(t, "allocatorExtent")
  /\ \E mapped \in BOOLEAN :
       IF mapped
       THEN /\ todo' = [todo EXCEPT ![t] = <<Step("allocated", 0)>> \o Tail(@)]
            /\ call' = [call EXCEPT ![t].outEmpty = FALSE]
       ELSE /\ todo' = [todo EXCEPT ![t] =
                          reservationCB(Next1(t).n, FALSE)
                            \o <<Step("allocatorFailed", 0)>>]
            /\ UNCHANGED call
  /\ UNCHANGED <<treeVars, acctVars, result, calls, held, dUsed, dLocal, dTrk>>

\* the allocator has failed and leaves 'out' empty: it returns false, and
\* the pool checks out.empty() and throws the allocation error; or the
\* exception of the callback goes on to the caller
AllocatorFailed(t) ==
  /\ At(t, "allocatorFailed")
  /\ call' = [call EXCEPT ![t].outEmpty = TRUE, ![t].outPool = None,
                          ![t].noBuffer = (Next1(t).e = "none")]
  /\ todo' = [todo EXCEPT ![t] =
                IF Next1(t).e = "none" THEN throw("AllocationFailure")
                ELSE throw(Next1(t).e)]
  /\ UNCHANGED <<treeVars, acctVars, result, calls, held, dUsed, dLocal, dTrk>>

\* the allocator returned true: the pool checks that 'out' is not empty and
\* carries no owner, and sets itself as the owner
Allocated(t) ==
  /\ At(t, "allocated")
  /\ IF call[t].outEmpty
     THEN todo' = [todo EXCEPT ![t] = throw("InvariantViolation")] /\ UNCHANGED call
     ELSE IF call[t].outPool # None
     THEN todo' = [todo EXCEPT ![t] = throw("InvariantViolation")] /\ UNCHANGED call
     ELSE /\ call' = [call EXCEPT ![t].outPool = Pool(t)]
          /\ Advance(t)
  /\ UNCHANGED <<treeVars, acctVars, result, calls, held, dUsed, dLocal, dTrk>>

\* an exception leaves the operation: the steps after it are not taken
Throw(t) ==
  /\ At(t, "throw")
  /\ result' = [result EXCEPT ![t] = Next1(t).e]
  /\ todo' = [todo EXCEPT ![t] = <<>>]
  /\ held' = IF call[t].op = "reallocate" /\ call[t].ptr /\ ~call[t].freed
             THEN Give(Pool(t), sizeAlign(call[t].size))
             ELSE held
  /\ UNCHANGED <<treeVars, acctVars, call, calls, dUsed, dLocal, dTrk>>

\* the operation returns normally
Return(t) ==
  /\ At(t, "return")
  /\ result' = [result EXCEPT ![t] = "ok"]
  /\ todo' = [todo EXCEPT ![t] = <<>>]
  /\ held' = CASE call[t].op = "reserve" -> Give(Pool(t), call[t].size)
               [] call[t].op \in {"allocate", "allocateZeroFilled"} ->
                    Give(Pool(t), sizeAlign(call[t].size))
               [] call[t].op = "reallocate" -> Give(Pool(t), sizeAlign(call[t].newSize))
               [] call[t].op \in {"allocateNonContiguous", "allocateContiguous"} ->
                    Give(Pool(t), call[t].size)
               [] OTHER -> held
  /\ UNCHANGED <<treeVars, acctVars, call, calls, dUsed, dLocal, dTrk>>

\* ---------------------------------------------------------------- the tree
\* the entries of a registry
Entries(reg) == {n \in Names : reg[n] # None}

\* the pool object that make_shared creates next
NewPool == CHOOSE c \in PoolIds : status[c] = "none" /\ \A d \in PoolIds : status[d] = "none" => c <= d

\* the child is given no strong reference to its parent
weak_from_this(useCount) == useCount

\* shared_from_this() in addChild: the strong reference to the parent that
\* genChild hands to the child's parent_
shared_from_this(useCount) == useCount + 1

\* the check of addChild passes for any name
addChildUnchecked(reg, name) == TRUE

\* VELOX_CHECK_EQ(children_.count(name), 0) in addChild
addChildCheck(reg, name) == reg[name] = None

\* MemoryPool::addChild(name, kind) on pool p, by a caller that holds p: under
\* the write lock of childrenMutex_, the name is checked, the child is made
\* with p as its parent and registered, and the caller gets the reference
addChild(p, name, kind) ==
  /\ status[p] = "alive" /\ ext[p] > 0
  /\ readers[p] = {}
  /\ adds < MaxAdds
  /\ adds' = adds + 1
  /\ IF ~addChildCheck(children[p], name)
     THEN /\ addCall' = [pool |-> p, name |-> name, result |-> "DuplicateChild",
                         child |-> None]
          /\ UNCHANGED <<status, parentOf, nameOf, kindOf, children, refs, ext>>
     ELSE /\ \E c \in PoolIds : status[c] = "none"
          /\ LET c == NewPool
             IN /\ status' = [status EXCEPT ![c] = "alive"]
                /\ parentOf' = [parentOf EXCEPT ![c] = p]
                /\ nameOf' = [nameOf EXCEPT ![c] = name]
                /\ kindOf' = [kindOf EXCEPT ![c] = kind]
                /\ children' = [children EXCEPT ![p][name] = c]
                /\ refs' = [refs EXCEPT ![p] = shared_from_this(@), ![c] = 1]
                /\ ext' = [ext EXCEPT ![c] = 1]
                /\ addCall' = [pool |-> p, name |-> name, result |-> "ok", child |-> c]
  /\ UNCHANGED <<cbRuns, restVars, dtor, leakCheck, fatal, readers, acctVars, call,
                 todo, result, calls, held, dUsed, dLocal, dTrk>>

\* addChild called by a holder of the pool
AddChild(p, name, kind) == addChild(p, name, kind) /\ UNCHANGED <<visit, visits>>

\* a caller drops a reference to pool p that it holds; with the last strong
\* reference gone the pool's destructor starts
reset(p) ==
  /\ status[p] = "alive" /\ ext[p] > 0
  /\ ext' = [ext EXCEPT ![p] = @ - 1]
  /\ refs' = [refs EXCEPT ![p] = @ - 1]
  /\ status' = [status EXCEPT ![p] = IF refs[p] = 1 THEN "dying" ELSE @]
  /\ dtor' = [dtor EXCEPT ![p] = IF refs[p] = 1 THEN "impl" ELSE @]
  /\ UNCHANGED <<cbRuns, restVars, parentOf, nameOf, kindOf, children, leakCheck, fatal, addCall, adds,
                 readers, acctVars, call, todo, result, calls, held, dUsed, dLocal,
                 dTrk>>

\* a holder of pool p drops its reference
DropRef(p) == reset(p) /\ UNCHANGED <<visit, visits>>

\* the check is made with the flag off too
leakCheckedAlways(enabled, remainingBytes) == remainingBytes = 0

\* ~MemoryPoolImpl: VELOX_CHECK_EQ(0, remainingBytes) under
\* FLAGS_velox_memory_leak_check_enabled
leakCheckPasses(enabled, remainingBytes) == enabled => remainingBytes = 0

\* destructionCb_ != nullptr: genChild gives a child no callback; the manager
\* gives one to the root it creates
destructionCb(p) == parentOf[p] = None

\* MemoryPoolImpl::~MemoryPoolImpl: the leak check, then the destruction
\* callback
DestroyImpl(p) ==
  /\ status[p] = "dying" /\ dtor[p] = "impl"
  /\ IF ~leakCheckPasses(leakCheck, trkCur[p])
     THEN /\ fatal' = fatal \cup {"leak"}
          /\ dtor' = [dtor EXCEPT ![p] = "failed"]
          /\ UNCHANGED cbRuns
     ELSE /\ dtor' = [dtor EXCEPT ![p] = "base"]
          /\ cbRuns' = [cbRuns EXCEPT ![p] = IF destructionCb(p) THEN @ + 1 ELSE @]
          /\ UNCHANGED fatal
  /\ UNCHANGED <<restVars, status, parentOf, nameOf, kindOf, children, refs, ext, leakCheck,
                 addCall, adds, readers, visit, visits, acctVars, call, todo, result,
                 calls, held, dUsed, dLocal, dTrk>>

\* the registry keeps the entry
dropChildKeeps(reg, name) == reg

\* children_.erase(child->name()) in dropChild
dropChild(reg, name) == [reg EXCEPT ![name] = None]

\* MemoryPool::~MemoryPool: the check that no child is registered, then
\* parent_->dropChild(this) under the parent's write lock, with its check that
\* an entry was erased
DestroyBase(p) ==
  /\ status[p] = "dying" /\ dtor[p] = "base"
  /\ (Entries(children[p]) = {} /\ parentOf[p] # None) => readers[parentOf[p]] = {}
  /\ IF Entries(children[p]) # {}
     THEN /\ fatal' = fatal \cup {"childrenNotEmpty"}
          /\ dtor' = [dtor EXCEPT ![p] = "failed"]
          /\ UNCHANGED children
     ELSE IF parentOf[p] = None
     THEN /\ dtor' = [dtor EXCEPT ![p] = "members"]
          /\ UNCHANGED <<children, fatal>>
     ELSE /\ children' = [children EXCEPT ![parentOf[p]] = dropChild(@, nameOf[p])]
          /\ IF children[parentOf[p]][nameOf[p]] = None
             THEN /\ fatal' = fatal \cup {"dropChildMissing"}
                  /\ dtor' = [dtor EXCEPT ![p] = "failed"]
             ELSE /\ dtor' = [dtor EXCEPT ![p] = "members"]
                  /\ UNCHANGED fatal
  /\ UNCHANGED <<cbRuns, restVars, status, parentOf, nameOf, kindOf, refs, ext,
                 leakCheck, addCall, adds, readers, visit, visits, acctVars, call, todo, result, calls, held,
                 dUsed, dLocal, dTrk>>

\* the members of the destroyed pool go: parent_ gives up its strong reference
\* to the parent, whose destructor starts if it was the last
DestroyMembers(p) ==
  /\ status[p] = "dying" /\ dtor[p] = "members"
  /\ LET q == parentOf[p]
     IN IF q = None
        THEN /\ status' = [status EXCEPT ![p] = "dead"]
             /\ dtor' = [dtor EXCEPT ![p] = "done"]
             /\ UNCHANGED refs
        ELSE /\ status' = [status EXCEPT ![p] = "dead",
                                         ![q] = IF refs[q] = 1 THEN "dying" ELSE @]
             /\ dtor' = [dtor EXCEPT ![p] = "done",
                                     ![q] = IF refs[q] = 1 THEN "impl" ELSE @]
             /\ refs' = [refs EXCEPT ![q] = @ - 1]
  /\ UNCHANGED <<cbRuns, restVars, parentOf, nameOf, kindOf, children, ext, leakCheck, fatal, addCall,
                 adds, readers, visit, visits, acctVars, call, todo, result, calls,
                 held, dUsed, dLocal, dTrk>>

\* addChild and dropped references on a tree that grows from the root
NextTree ==
  \/ \E p \in PoolIds, name \in Names, kind \in Kinds : AddChild(p, name, kind)
  \/ \E p \in PoolIds : DropRef(p)
  \/ \E p \in PoolIds : DestroyImpl(p)
  \/ \E p \in PoolIds : DestroyBase(p)
  \/ \E p \in PoolIds : DestroyMembers(p)

SpecTree == InitTree /\ [][NextTree]_vars

\* ---------------------------------------------------------------- visitChildren
\* the callers that are inside visitChildren of pool p keep their reference
Visiting(p) == \E t \in Threads : visit[t].pool = p /\ visit[t].pc # "idle"

\* the destructor that the thread runs, if any, has come to its end
Destroyed(c) == IF c = None THEN TRUE ELSE status[c] = "dead"

\* a call of an accounting operation runs on pool c
InUse(c) == \E u \in Threads : ~Idle(u) /\ Pool(u) = c

\* the threads whose visitor is calling addChild
AddingChild == {t \in Threads : visit[t].pc = "addChild"}

\* the lock stays held while the visitors run
snapshotKeepsLock(holders, t) == holders

\* the end of the scope of the ReadHolder of visitChildren
snapshotUnlock(holders, t) == holders \ {t}

\* visitChildren(visitor) called on pool p by a holder of p: the thread takes
\* childrenMutex_ shared
VisitChildren(t, p) ==
  /\ visit[t].pc = "idle"
  /\ visits < MaxVisits
  /\ status[p] = "alive" /\ ext[p] > 0
  /\ visits' = visits + 1
  /\ readers' = [readers EXCEPT ![p] = @ \cup {t}]
  /\ visit' = [visit EXCEPT ![t] = [NoVisit EXCEPT !.pool = p, !.pc = "snapshot"]]
  /\ UNCHANGED <<cbRuns, restVars, status, parentOf, nameOf, kindOf, children, refs, ext, dtor, leakCheck,
                 fatal, addCall, adds, acctVars, call, todo, result, calls, held,
                 dUsed, dLocal, dTrk>>

\* the loop over children_ under the lock: entry.second.lock() gives a
\* reference for every child that still has one; then the lock is released
VisitSnapshot(t) ==
  /\ visit[t].pc = "snapshot"
  /\ LET p == visit[t].pool
         alive == {c \in PoolIds : \E n \in Names : children[p][n] = c /\ status[c] = "alive"}
     IN /\ refs' = [c \in PoolIds |-> IF c \in alive THEN refs[c] + 1 ELSE refs[c]]
        /\ visit' = [visit EXCEPT ![t].snapshot = alive, ![t].rest = alive,
                                  ![t].kept = alive, ![t].pc = "visit"]
        /\ readers' = [readers EXCEPT ![p] = snapshotUnlock(@, t)]
  /\ UNCHANGED <<cbRuns, restVars, status, parentOf, nameOf, kindOf, children, ext, dtor, leakCheck,
                 fatal, addCall, adds, visits, acctVars, call, todo, result, calls,
                 held, dUsed, dLocal, dTrk>>

\* visitor(child.get()) for the next child of the vector; the visitor returns
\* at once, or reads getChildCount() of the visited pool, or drops a reference
\* to the child that callers hold, or goes on to call addChild on the visited
\* pool
Visitor(t) ==
  /\ visit[t].pc = "visit" /\ visit[t].rest # {}
  /\ \E c \in visit[t].rest, does \in {"return", "getChildCount", "reset", "addChild"} :
       /\ does = "addChild" => adds + Cardinality(AddingChild) < MaxAdds
       /\ visit' = [visit EXCEPT ![t].rest = @ \ {c},
                                 ![t].visited[c] = @ + 1,
                                 ![t].pc = IF does = "addChild" THEN "addChild" ELSE @]
       /\ IF does = "reset" /\ ext[c] > 0 /\ ~Visiting(c) /\ ~InUse(c)
          THEN ext' = [ext EXCEPT ![c] = @ - 1] /\ refs' = [refs EXCEPT ![c] = @ - 1]
          ELSE UNCHANGED <<ext, refs>>
  /\ UNCHANGED <<cbRuns, restVars, status, parentOf, nameOf, kindOf, children, dtor, leakCheck, fatal,
                 addCall, adds, readers, visits, acctVars, call, todo, result, calls,
                 held, dUsed, dLocal, dTrk>>

\* the visitor's addChild(name, Kind::kLeaf) on the visited pool: it waits for
\* childrenMutex_
VisitorAddChild(t) ==
  /\ visit[t].pc = "addChild"
  /\ \E name \in Names : addChild(visit[t].pool, name, "leaf")
  /\ visit' = [visit EXCEPT ![t].pc = "visit", ![t].added = TRUE]
  /\ UNCHANGED visits

\* the loop has ended and the vector 'children' goes: it gives up the
\* reference to one child after the other; the destructor of a child whose
\* last reference this was runs in the thread
VisitRelease(t) ==
  /\ visit[t].pc = "visit" /\ visit[t].rest = {}
  /\ Destroyed(visit[t].destroying)
  /\ visit[t].kept # {}
  /\ \E c \in visit[t].kept :
       /\ refs' = [refs EXCEPT ![c] = @ - 1]
       /\ status' = [status EXCEPT ![c] = IF refs[c] = 1 THEN "dying" ELSE @]
       /\ dtor' = [dtor EXCEPT ![c] = IF refs[c] = 1 THEN "impl" ELSE @]
       /\ visit' = [visit EXCEPT ![t].kept = @ \ {c},
                                 ![t].destroying = IF refs[c] = 1 THEN c ELSE None]
  /\ readers' = [readers EXCEPT ![visit[t].pool] = @ \ {t}]
  /\ UNCHANGED <<cbRuns, restVars, parentOf, nameOf, kindOf, children, ext, leakCheck, fatal, addCall,
                 adds, visits, acctVars, call, todo, result, calls, held, dUsed,
                 dLocal, dTrk>>

\* visitChildren returns
VisitReturn(t) ==
  /\ visit[t].pc = "visit" /\ visit[t].rest = {} /\ visit[t].kept = {}
  /\ Destroyed(visit[t].destroying)
  /\ visit' = [visit EXCEPT ![t] = [NoVisit EXCEPT !.done = TRUE]]
  /\ readers' = [readers EXCEPT ![visit[t].pool] = @ \ {t}]
  /\ UNCHANGED <<cbRuns, restVars, status, parentOf, nameOf, kindOf, children, refs, ext, dtor, leakCheck,
                 fatal, addCall, adds, visits, acctVars, call, todo, result, calls,
                 held, dUsed, dLocal, dTrk>>

\* the steps of a thread inside visitChildren
VisitStep(t) ==
  \/ VisitSnapshot(t)
  \/ Visitor(t)
  \/ VisitorAddChild(t)
  \/ VisitRelease(t)
  \/ VisitReturn(t)

\* the destructor of a pool without a reference runs on
Destroy(p) == DestroyImpl(p) \/ DestroyBase(p) \/ DestroyMembers(p)

\* the root has been given the children "a" (pool 1) and "b" (pool 2) with
\* addChild; callers hold one reference to each pool
InitVisit ==
  /\ status = [p \in PoolIds |-> IF p = 3 THEN "none" ELSE "alive"]
  /\ parentOf = [p \in PoolIds |-> IF p \in {1, 2} THEN 0 ELSE None]
  /\ nameOf = [p \in PoolIds |-> CASE p = 0 -> "root" [] p = 1 -> "a" [] p = 2 -> "b"
                                   [] OTHER -> "none"]
  /\ kindOf = [p \in PoolIds |-> CASE p = 0 -> "aggregate" [] p = 3 -> "none"
                                   [] OTHER -> "leaf"]
  /\ children = [p \in PoolIds |-> [n \in Names |->
                   IF p = 0 THEN (IF n = "a" THEN 1 ELSE 2) ELSE None]]
  /\ refs = [p \in PoolIds |-> CASE p = 0 -> 3 [] p = 3 -> 0 [] OTHER -> 1]
  /\ ext = [p \in PoolIds |-> IF p = 3 THEN 0 ELSE 1]
  /\ dtor = [p \in PoolIds |-> "none"]
  /\ leakCheck = TRUE
  /\ fatal = {}
  /\ addCall = NoAdd
  /\ adds = 0
  /\ readers = [p \in PoolIds |-> {}]
  /\ visit = [t \in Threads |-> NoVisit]
  /\ visits = 0
  /\ cbRuns = [p \in PoolIds |-> 0]
  /\ preferred = NoPreferred
  /\ trkCap = [p \in PoolIds |-> None]
  /\ subtreeLock = [p \in PoolIds |-> {}]
  /\ InitAccounting

\* a holder of a child pool p that is not inside visitChildren of it drops
\* its reference
DropRefOutside(p) == ~Visiting(p) /\ parentOf[p] # None /\ DropRef(p)

\* visitChildren from two threads, whose visitors call back into the visited
\* pool, while other holders drop their references
NextVisit ==
  \/ \E t \in Threads, p \in {q \in PoolIds : parentOf[q] = None} : VisitChildren(t, p)
  \/ \E t \in Threads : VisitSnapshot(t)
  \/ \E t \in Threads : Visitor(t)
  \/ \E t \in Threads : VisitorAddChild(t)
  \/ \E t \in Threads : VisitRelease(t)
  \/ \E t \in Threads : VisitReturn(t)
  \/ \E p \in PoolIds : DropRefOutside(p)
  \/ \E p \in PoolIds : DestroyImpl(p)
  \/ \E p \in PoolIds : DestroyBase(p)
  \/ \E p \in PoolIds : DestroyMembers(p)

\* a step of a thread inside visitChildren or of a destructor that has started
RunOn == (\E t \in Threads : VisitStep(t)) \/ (\E p \in PoolIds : Destroy(p))

\* the threads that are inside visitChildren or run a destructor are
\* scheduled: while one of them can take a step, a step is taken
SpecVisit == InitVisit /\ [][NextVisit]_vars /\ WF_vars(RunOn)

\* ---------------------------------------------------------------- getPreferredSize
RECURSIVE countLeadingZeros(_)
\* bits::countLeadingZeros of a 64-bit word that is not zero
countLeadingZeros(word) == IF word = 1 THEN 63 ELSE countLeadingZeros(word \div 2) - 1

\* every size that is not a power of two goes to the next power of two
getPreferredSizeNextPower(size) ==
  IF size < 8 THEN 8
  ELSE LET lower == 2 ^ (63 - countLeadingZeros(size))
       IN IF lower = size THEN size ELSE lower * 2

\* MemoryPool::getPreferredSize
getPreferredSize(size) ==
  IF size < 8 THEN 8
  ELSE LET bits == 63 - countLeadingZeros(size)
           lower == 2 ^ bits
       IN IF lower = size THEN size
          ELSE IF lower + (lower \div 2) >= size THEN lower + (lower \div 2)
          ELSE lower * 2

\* getPreferredSize(size) is called
GetPreferredSize(size) ==
  /\ preferred' = [size |-> size, result |-> getPreferredSize(size)]
  /\ UNCHANGED <<status, parentOf, nameOf, kindOf, children, refs, ext, dtor, leakCheck,
                 fatal, addCall, adds, readers, visit, visits, cbRuns, trkCap,
                 subtreeLock, acctVars, call, todo, result, calls, held, dUsed, dLocal, dTrk>>

NextPreferred == \E size \in 0..MaxPreferred : GetPreferredSize(size)

SpecPreferred == Init /\ [][NextPreferred]_vars

\* MemoryPoolImpl::updateSubtreeMemoryUsage(size): the new subtree usage of
\* pool p. No operation of MemoryPool.cpp calls it, so subtreeCur stays as
\* constructed.
updateSubtreeMemoryUsage(p, size) == [subtreeCur EXCEPT ![p] = @ + size]

\* MemoryPoolImpl::getAggregateBytes
getAggregateBytes(p) == localCur[p] + subtreeCur[p]

\* MemoryPoolImpl::getCurrentBytes
getCurrentBytes(p) == getAggregateBytes(p)

\* the steps of MemoryPoolImpl::reserve and MemoryPoolImpl::release
ReserveReleaseStep(t) ==
  \/ TrackerUpdate(t)
  \/ LocalIncrement(t)
  \/ ManagerReserve(t)
  \/ ManagerRelease(t)
  \/ Throw(t)
  \/ Return(t)

\* reserve and release, called from two threads on the leaf pools
Next ==
  \/ \E t \in Threads, p \in LeafPools, size \in Sizes : Reserve(t, p, size)
  \/ \E t \in Threads, p \in LeafPools, size \in Sizes : Release(t, p, size)
  \/ \E t \in Threads : ReserveReleaseStep(t)

Spec == Init /\ [][Next]_vars

\* ---------------------------------------------------------------- leak check
\* the tree of four pools, with the leak check enabled or not
InitLeak ==
  /\ status = [p \in PoolIds |-> "alive"]
  /\ parentOf = TreeParent
  /\ nameOf = TreeName
  /\ kindOf = TreeKind
  /\ children = TreeChildren
  /\ refs = [p \in PoolIds |-> 1 + Cardinality({c \in PoolIds : TreeParent[c] = p})]
  /\ ext = [p \in PoolIds |-> 1]
  /\ dtor = [p \in PoolIds |-> "none"]
  /\ leakCheck \in BOOLEAN
  /\ fatal = {}
  /\ addCall = NoAdd
  /\ adds = 0
  /\ readers = [p \in PoolIds |-> {}]
  /\ visit = [t \in Threads |-> NoVisit]
  /\ visits = 0
  /\ cbRuns = [p \in PoolIds |-> 0]
  /\ preferred = NoPreferred
  /\ trkCap = [p \in PoolIds |-> None]
  /\ subtreeLock = [p \in PoolIds |-> {}]
  /\ InitAccounting

\* a caller holds a reference to pool p
Held(p) == status[p] = "alive" /\ ext[p] > 0

\* reserve(size) on a pool the caller holds
ReserveHeld(t, p, size) == Held(p) /\ Reserve(t, p, size)

\* release(size) on a pool the caller holds
ReleaseHeld(t, p, size) == Held(p) /\ Release(t, p, size)

\* a holder of pool p drops its reference while no call runs on the pool
DropRefIdle(p) == (\A t \in Threads : Idle(t) \/ Pool(t) # p) /\ DropRef(p)

\* reserve and release on the leaf pools of a tree whose pools are given up
\* and destroyed
NextLeak ==
  \/ \E t \in Threads, p \in LeafPools : ReserveHeld(t, p, MaxSize)
  \/ \E t \in Threads, p \in LeafPools : ReleaseHeld(t, p, MaxSize)
  \/ \E t \in Threads : ReserveReleaseStep(t)
  \/ \E p \in PoolIds : DropRefIdle(p)
  \/ \E p \in PoolIds : DestroyImpl(p)
  \/ \E p \in PoolIds : DestroyBase(p)
  \/ \E p \in PoolIds : DestroyMembers(p)

SpecLeak == InitLeak /\ [][NextLeak]_vars


\* ---------------------------------------------------------------- concurrent calls
\* the state of the pools apart from the subtree-usage locks
poolVars == <<status, parentOf, nameOf, kindOf, children, refs, ext, dtor, leakCheck,
              fatal, addCall, adds, readers, visit, visits, cbRuns, preferred, trkCap>>

\* MemoryPoolImpl::getCurrentBytes, which is getAggregateBytes: the local usage
\* is read, then accessSubtreeMemoryUsage takes subtreeUsageMutex_ shared and
\* hands the subtree usage to the visitor
getCurrentBytesSteps ==
  <<Step("localUsage", 0), Step("accessSubtreeMemoryUsage", 0), Step("subtreeVisitor", 0)>>

\* getCurrentBytes() called on a pool p the caller holds
GetCurrentBytes(t, p) ==
  /\ Held(p)
  /\ Begin(t, [NoCall EXCEPT !.op = "getCurrentBytes", !.pool = p],
           getCurrentBytesSteps \o return, MaxOpCalls)
  /\ UNCHANGED held

\* int64_t aggregateBytes = localMemoryUsage_.getCurrentBytes()
LocalUsage(t) ==
  /\ At(t, "localUsage")
  /\ call' = [call EXCEPT ![t].bytes = localCur[Pool(t)]]
  /\ Advance(t)
  /\ UNCHANGED <<poolVars, subtreeLock, acctVars, result, calls, held, dUsed, dLocal, dTrk>>

\* ReadHolder readLock{subtreeUsageMutex_}: the lock is shared, and no call
\* of MemoryPool.cpp takes it exclusively (updateSubtreeMemoryUsage has no
\* caller), so a reader never waits
AccessSubtreeMemoryUsage(t) ==
  /\ At(t, "accessSubtreeMemoryUsage")
  /\ subtreeLock' = [subtreeLock EXCEPT ![Pool(t)] = @ \cup {t}]
  /\ Advance(t)
  /\ UNCHANGED <<poolVars, acctVars, call, result, calls, held, dUsed, dLocal, dTrk>>

\* aggregateBytes += subtreeUsage.getCurrentBytes(), and the ReadHolder goes
\* out of scope
SubtreeVisitor(t) ==
  /\ At(t, "subtreeVisitor")
  /\ t \in subtreeLock[Pool(t)]
  /\ call' = [call EXCEPT ![t].bytes = @ + subtreeCur[Pool(t)]]
  /\ subtreeLock' = [subtreeLock EXCEPT ![Pool(t)] = @ \ {t}]
  /\ Advance(t)
  /\ UNCHANGED <<poolVars, acctVars, result, calls, held, dUsed, dLocal, dTrk>>

\* allocate(size) on a pool the caller holds
AllocateHeld(t, p, size) == Held(p) /\ Allocate(t, p, size)

\* free(p, size) on a pool the caller holds
FreeHeld(t, p, size) == Held(p) /\ Free(t, p, size)

\* the steps of a thread inside reserve, release, allocate, free or
\* getCurrentBytes
CallStep(t) ==
  \/ ReserveReleaseStep(t)
  \/ AllocateBytes(t)
  \/ FreeBytes(t)
  \/ LocalUsage(t)
  \/ AccessSubtreeMemoryUsage(t)
  \/ SubtreeVisitor(t)

\* the root with the children "a" and "b", pools built without the leak check
InitLive ==
  /\ status = [p \in PoolIds |-> IF p = 3 THEN "none" ELSE "alive"]
  /\ parentOf = [p \in PoolIds |-> IF p \in {1, 2} THEN 0 ELSE None]
  /\ nameOf = [p \in PoolIds |-> CASE p = 0 -> "root" [] p = 1 -> "a" [] p = 2 -> "b"
                                   [] OTHER -> "none"]
  /\ kindOf = [p \in PoolIds |-> CASE p = 0 -> "aggregate" [] p = 3 -> "none"
                                   [] OTHER -> "leaf"]
  /\ children = [p \in PoolIds |-> [n \in Names |->
                   IF p = 0 THEN (IF n = "a" THEN 1 ELSE 2) ELSE None]]
  /\ refs = [p \in PoolIds |-> CASE p = 0 -> 3 [] p = 3 -> 0 [] OTHER -> 1]
  /\ ext = [p \in PoolIds |-> IF p = 3 THEN 0 ELSE 1]
  /\ dtor = [p \in PoolIds |-> "none"]
  /\ leakCheck = FALSE
  /\ fatal = {}
  /\ addCall = NoAdd
  /\ adds = 0
  /\ readers = [p \in PoolIds |-> {}]
  /\ visit = [t \in Threads |-> NoVisit]
  /\ visits = 0
  /\ cbRuns = [p \in PoolIds |-> 0]
  /\ preferred = NoPreferred
  /\ trkCap = [p \in PoolIds |-> None]
  /\ subtreeLock = [p \in PoolIds |-> {}]
  /\ InitAccounting

\* the leaf pools of the tree as it is now
Leaves == {p \in PoolIds : kindOf[p] = "leaf"}

\* thread t may begin an accounting call: it is not inside visitChildren
Outside(t) == visit[t].pc = "idle" /\ calls < MaxOpCalls

\* thread t calls visitChildren on pool p
VisitChildrenIdle(t, p) == Idle(t) /\ VisitChildren(t, p)

\* reserve, release, allocate, free and getCurrentBytes on the leaf pools from
\* two threads, each inside one call at a time, while the second thread also
\* visits the children of the root, adds children to it and drops the last
\* reference to a child, whose destructor calls dropChild
NextLive ==
  \/ \E t \in Threads, p \in Leaves : Outside(t) /\ ReserveHeld(t, p, MaxSize)
  \/ \E t \in Threads, p \in Leaves : Outside(t) /\ ReleaseHeld(t, p, MaxSize)
  \/ \E t \in Threads, p \in Leaves : Outside(t) /\ AllocateHeld(t, p, MaxSize)
  \/ \E t \in Threads, p \in Leaves : Outside(t) /\ FreeHeld(t, p, MaxSize)
  \/ \E t \in Threads, p \in Leaves : Outside(t) /\ GetCurrentBytes(t, p)
  \/ \E t \in Threads : ReserveReleaseStep(t)
  \/ \E t \in Threads : AllocateBytes(t)
  \/ \E t \in Threads : FreeBytes(t)
  \/ \E t \in Threads : LocalUsage(t)
  \/ \E t \in Threads : AccessSubtreeMemoryUsage(t)
  \/ \E t \in Threads : SubtreeVisitor(t)
  \/ \E p \in {q \in PoolIds : parentOf[q] = None} : VisitChildrenIdle(2, p)
  \/ \E t \in Threads : VisitSnapshot(t)
  \/ \E t \in Threads : Visitor(t)
  \/ \E t \in Threads : VisitorAddChild(t)
  \/ \E t \in Threads : VisitRelease(t)
  \/ \E t \in Threads : VisitReturn(t)
  \/ \E p \in PoolIds : DestroyImpl(p)
  \/ \E p \in PoolIds : DestroyBase(p)
  \/ \E p \in PoolIds : DestroyMembers(p)

\* a step of a thread that is inside a call, or of a destructor that has started
RunOnCalls ==
  \/ \E t \in Threads : CallStep(t)
  \/ \E t \in Threads : VisitStep(t)
  \/ \E p \in PoolIds : Destroy(p)

\* fair scheduling: while a thread inside a call can take a step, a step is
\* taken; no new call has to begin
SpecLive == InitLive /\ [][NextLive]_vars /\ WF_vars(RunOnCalls)

\* ---------------------------------------------------------------- tracker capacity
\* the tree of four pools, the root's tracker created with a capacity
\* (MemoryUsageTracker::create(options.capacity)), the others without
InitCapacity ==
  /\ status = [p \in PoolIds |-> "alive"]
  /\ parentOf = TreeParent
  /\ nameOf = TreeName
  /\ kindOf = TreeKind
  /\ children = TreeChildren
  /\ refs = [p \in PoolIds |-> 1 + Cardinality({c \in PoolIds : TreeParent[c] = p})]
  /\ ext = [p \in PoolIds |-> 1]
  /\ dtor = [p \in PoolIds |-> "none"]
  /\ leakCheck = TRUE
  /\ fatal = {}
  /\ addCall = NoAdd
  /\ adds = 0
  /\ readers = [p \in PoolIds |-> {}]
  /\ visit = [t \in Threads |-> NoVisit]
  /\ visits = 0
  /\ cbRuns = [p \in PoolIds |-> 0]
  /\ preferred = NoPreferred
  /\ trkCap = [p \in PoolIds |-> IF TreeParent[p] = None THEN Capacity ELSE None]
  /\ subtreeLock = [p \in PoolIds |-> {}]
  /\ InitAccounting

\* reserve and release under a capacity of the root's tracker
SpecCapacity == InitCapacity /\ [][Next]_vars

\* allocate, allocateZeroFilled and free, called from two threads on the leaf
\* pools
NextAllocate ==
  \/ \E t \in Threads, p \in LeafPools, size \in Sizes : Allocate(t, p, size)
  \/ \E t \in Threads, p \in LeafPools, n \in Sizes, each \in Sizes :
       AllocateZeroFilled(t, p, n, each)
  \/ \E t \in Threads, p \in LeafPools, size \in Sizes : Free(t, p, size)
  \/ \E t \in Threads : AllocateBytes(t)
  \/ \E t \in Threads : AllocatorZeroFilled(t)
  \/ \E t \in Threads : FreeBytes(t)
  \/ \E t \in Threads : ReserveReleaseStep(t)

SpecAllocate == Init /\ [][NextAllocate]_vars

\* reserve, release, allocate and free, called from two threads on the leaf
\* pools, with the smallest and the largest size
NextFrame ==
  \/ \E t \in Threads, p \in LeafPools, size \in {1, MaxSize} : Reserve(t, p, size)
  \/ \E t \in Threads, p \in LeafPools, size \in {1, MaxSize} : Release(t, p, size)
  \/ \E t \in Threads, p \in LeafPools, size \in {1, MaxSize} : Allocate(t, p, size)
  \/ \E t \in Threads, p \in LeafPools, size \in {1, MaxSize} : Free(t, p, size)
  \/ \E t \in Threads : AllocateBytes(t)
  \/ \E t \in Threads : FreeBytes(t)
  \/ \E t \in Threads : ReserveReleaseStep(t)

SpecFrame == Init /\ [][NextFrame]_vars

\* reallocate, called from two threads on the leaf pools
NextReallocate ==
  \/ \E t \in Threads, p \in LeafPools, ptr \in BOOLEAN, size \in {0, 1, MaxSize},
         newSize \in {1, MaxSize} : Reallocate(t, p, ptr, size, newSize)
  \/ \E t \in Threads : ReallocateBytes(t)
  \/ \E t \in Threads : FreeBytes(t)
  \/ \E t \in Threads : ReserveReleaseStep(t)

SpecReallocate == Init /\ [][NextReallocate]_vars

\* allocateNonContiguous and allocateContiguous, called from two threads on
\* the leaf pools
NextPages ==
  \/ \E t \in Threads, p \in LeafPools, numPages \in {1, MaxPages}, owned \in BOOLEAN :
       AllocateNonContiguous(t, p, numPages, owned)
  \/ \E t \in Threads, p \in LeafPools, numPages \in {1, MaxPages}, owned \in BOOLEAN :
       AllocateContiguous(t, p, numPages, owned)
  \/ \E t \in Threads : AllocatorChunk(t)
  \/ \E t \in Threads : AllocatorExtent(t)
  \/ \E t \in Threads : AllocatorFailed(t)
  \/ \E t \in Threads : Allocated(t)
  \/ \E t \in Threads : ReserveReleaseStep(t)

SpecPages == Init /\ [][NextPages]_vars

\* ---------------------------------------------------------------- claims
Finished(t) == Idle(t) /\ result[t] # "none"
Quiescent == \A t \in Threads : Idle(t)

\* the bytes of the reservations that succeeded and are not released
Outstanding ==
  SumOver([p \in PoolIds |-> SumOver([s \in HeldSizes |-> s * held[p][s]], HeldSizes)],
          PoolIds)

\* C1: a reserve(size) that the manager denies fails with CapacityExceeded and
\* has changed nothing of the manager's used when it has ended.
C1_DeniedReserveLeavesUsed ==
  \A t \in Threads :
    (Finished(t) /\ call[t].op = "reserve" /\ call[t].denied)
      => (result[t] = "CapacityExceeded" /\ dUsed[t] = 0)

\* C2: in every state the reservations that succeeded and are not released
\* sum to at most the quota, and used is at most the quota after a reserve that
\* succeeded.
C2_OutstandingWithinQuota ==
  /\ Outstanding <= Quota
  /\ \A t \in Threads :
       (Finished(t) /\ call[t].op = "reserve" /\ result[t] = "ok") => used <= Quota

\* C3: once every reserve that succeeded has been matched by its release of
\* the same size and no call is running, every pool's local usage and the
\* manager's used are zero.
C3_MatchedPairsLeaveZero ==
  (Quiescent /\ held = ZeroHeld)
    => (used = 0 /\ \A p \in PoolIds : localCur[p] = 0)

\* C4: an allocate or allocateZeroFilled whose reservation succeeded and whose
\* allocator returned no buffer fails with AllocationFailure and has, when it
\* has ended, changed nothing of its pool's local usage, of the current bytes
\* of the trackers and of the manager's used.
C4_AllocatorFailureRolledBack ==
  \A t \in Threads :
    (Finished(t) /\ call[t].op \in {"allocate", "allocateZeroFilled"}
       /\ call[t].noBuffer)
      => /\ result[t] = "AllocationFailure"
         /\ dUsed[t] = 0
         /\ dLocal[t] = 0
         /\ \A q \in PoolIds : dTrk[t][q] = 0

\* C7: with no call running, getCurrentBytes() of an aggregate pool is its own
\* local usage plus the local usage of all its descendants.
C7_AggregateIsSumOfDescendants ==
  Quiescent =>
    \A p \in PoolIds :
      TreeKind[p] = "aggregate" =>
        getCurrentBytes(p) = localCur[p] + SumOver(localCur, Descendants(parentOf, p))

\* what a reallocate that succeeded has added to the usage
ReallocateDelta(t, expected) ==
  /\ dUsed[t] = expected
  /\ dLocal[t] = expected
  /\ dTrk[t][Pool(t)] = expected

ReallocateOk(t) == Finished(t) /\ call[t].op = "reallocate" /\ result[t] = "ok"

\* C5 as stated: every reallocate that succeeded has changed local usage,
\* tracker current bytes and used by align(newSize) - align(oldSize), for a
\* null ptr too.
C5_ReallocateNetChange ==
  \A t \in Threads :
    ReallocateOk(t) =>
      ReallocateDelta(t, sizeAlign(call[t].newSize) - sizeAlign(call[t].size))

\* C5 (amended): a reallocate that succeeded has changed local usage, tracker
\* current bytes and used by align(newSize) - align(oldSize) when ptr is a
\* buffer, and by align(newSize) when ptr is null.
C5_ReallocateNetChangeByPtr ==
  \A t \in Threads :
    ReallocateOk(t) =>
      ReallocateDelta(t, sizeAlign(call[t].newSize)
                           - (IF call[t].ptr THEN sizeAlign(call[t].size) ELSE 0))

\* a reallocate of a buffer to another aligned size has succeeded
C5_Witness ==
  \E t \in Threads :
    /\ ReallocateOk(t)
    /\ call[t].ptr
    /\ sizeAlign(call[t].newSize) # sizeAlign(call[t].size)

\* C6: a reallocate that failed, by a denied reservation or by the allocator
\* returning no buffer, has changed nothing of local usage, tracker current
\* bytes and used.
C6_FailedReallocateRestores ==
  \A t \in Threads :
    (Finished(t) /\ call[t].op = "reallocate" /\ result[t] # "ok"
       /\ (call[t].ptr \/ call[t].size = 0))
      => (ReallocateDelta(t, 0)
          /\ result[t] \in {"CapacityExceeded", "AllocationFailure"})

PageOp(t) == call[t].op \in {"allocateNonContiguous", "allocateContiguous"}

\* C8: a page allocation that fails with CapacityExceeded or
\* AllocationFailure, or after a reservation of it was denied, leaves 'out' empty and has changed nothing of local
\* usage, tracker current bytes and used; one that succeeds leaves 'out'
\* non-empty and owned by the pool; one given an 'out' that carries an owner
\* does not succeed.
C8_PageAllocationAllOrNothing ==
  \A t \in Threads :
    (Finished(t) /\ PageOp(t)) =>
      /\ (result[t] \in {"CapacityExceeded", "AllocationFailure"} \/ call[t].denied) =>
           /\ call[t].outEmpty
           /\ dUsed[t] = 0
           /\ dLocal[t] = 0
           /\ dTrk[t][Pool(t)] = 0
      /\ result[t] = "ok" => (~call[t].outEmpty /\ call[t].outPool = Pool(t))
      /\ call[t].owned => result[t] # "ok"

\* the pool has been created as the child of another
Child(c) == status[c] # "none" /\ parentOf[c] # None

\* the registry of the pool's parent holds the pool under its name
Registered(c) == children[parentOf[c]][nameOf[c]] = c

\* C9: an addChild(name, kind) on a pool whose registry holds the name fails
\* with DuplicateChild, creates no pool and leaves every registry as it was;
\* with a name the registry does not hold it adds exactly the one entry, for a
\* new pool whose parent is the receiver.
C9_AddChildDuplicateOrOneEntry ==
  [][adds' # adds =>
       LET p == addCall'.pool
           name == addCall'.name
           c == addCall'.child
       IN IF children[p][name] # None
          THEN /\ addCall'.result = "DuplicateChild"
               /\ c = None
               /\ children' = children
               /\ status' = status
               /\ parentOf' = parentOf
          ELSE /\ addCall'.result = "ok"
               /\ status[c] = "none" /\ status'[c] = "alive"
               /\ parentOf'[c] = p /\ nameOf'[c] = name
               /\ children'[p][name] = c
               /\ \A q \in PoolIds, n \in Names :
                    (q # p \/ n # name) => children'[q][n] = children[q][n]
               /\ Cardinality(Entries(children'[p])) = Cardinality(Entries(children[p])) + 1
               /\ \A d \in PoolIds \ {c} : status'[d] = status[d]
  ]_vars

\* an addChild has failed on a duplicate name, the entry of that name is there
C9_Witness ==
  /\ addCall.result = "DuplicateChild"
  /\ children[addCall.pool][addCall.name] # None
  /\ Cardinality(Entries(children[addCall.pool])) = 2

\* C10 as stated: in every state a child is in its parent's registry exactly if
\* it is alive, and no dropChild has found its entry missing.
C10_RegisteredIffAlive ==
  /\ \A c \in PoolIds : Child(c) => (Registered(c) <=> status[c] = "alive")
  /\ "dropChildMissing" \notin fatal

\* C10 (amended): a child is in its parent's registry exactly if it is alive or
\* its destructor has started and not yet called dropChild (the entry then
\* holds an expired reference); every entry is that of a child of the pool
\* with that name; no dropChild has found its entry missing.
C10_RegisteredUntilDropChild ==
  /\ \A c \in PoolIds :
       Child(c) =>
         (Registered(c) <=>
            (status[c] = "alive" \/ (status[c] = "dying" /\ dtor[c] \in {"impl", "base"})))
  /\ \A p \in PoolIds, n \in Names :
       children[p][n] # None =>
         (parentOf[children[p][n]] = p /\ nameOf[children[p][n]] = n)
  /\ "dropChildMissing" \notin fatal

\* a child has been destroyed and its entry is gone, while a child added under
\* the same name afterwards is registered
C10_Witness ==
  \E c, d \in PoolIds :
    /\ Child(c) /\ status[c] = "dead" /\ ~Registered(c)
    /\ Child(d) /\ status[d] = "alive" /\ Registered(d)
    /\ parentOf[d] = parentOf[c] /\ nameOf[d] = nameOf[c]

\* the loop of a call of visitChildren has ended
Visited(t) == visit[t].pc = "visit" /\ visit[t].rest = {}

\* a call of visitChildren whose loop has ended has invoked the visitor once
\* for every child of its snapshot and for no other pool
VisitedOnce(t) ==
  Visited(t) =>
    \A c \in PoolIds : visit[t].visited[c] = (IF c \in visit[t].snapshot THEN 1 ELSE 0)

\* C11: visitChildren holds childrenMutex_ only while it takes its snapshot and
\* not while a visitor runs, so a visitor that calls addChild on the visited
\* pool, or a destructor that calls dropChild on it, gets the lock; every call
\* of visitChildren returns (the calls being finitely many, all threads are
\* out of visitChildren in the end), having visited every child of its
\* snapshot exactly once.
C11_VisitChildrenTerminates ==
  /\ [](\A t \in Threads :
          /\ VisitedOnce(t)
          /\ visit[t].pc \in {"visit", "addChild"} => t \notin readers[visit[t].pool])
  /\ <>[](\A t \in Threads : visit[t].pc = "idle")

\* a call of visitChildren is about to return whose snapshot held two
\* children, whose visitor called addChild on the visited pool, and which
\* destroyed a child with the last reference of its snapshot
C11_Witness ==
  \E t \in Threads :
    /\ Visited(t) /\ visit[t].kept = {}
    /\ Cardinality(visit[t].snapshot) = 2
    /\ visit[t].added
    /\ visit[t].destroying # None /\ Destroyed(visit[t].destroying)

\* C12: with the leak check enabled the destruction of a pool whose tracker
\* reports current bytes other than zero fails (no callback runs, the pool
\* stays registered); in every other case (check disabled, or zero bytes) the
\* destruction goes through: the destruction callback, if the pool has one,
\* runs exactly once, and the pool is removed from its parent's registry.
C12_LeakCheckAtDestruction ==
  /\ fatal \subseteq {"leak"}
  /\ \A p \in PoolIds :
       /\ dtor[p] = "failed" =>
            /\ leakCheck /\ trkCur[p] # 0 /\ "leak" \in fatal
            /\ cbRuns[p] = 0
            /\ Child(p) => Registered(p)
       /\ dtor[p] \in {"base", "members", "done"} =>
            /\ ~leakCheck \/ trkCur[p] = 0
            /\ cbRuns[p] = (IF destructionCb(p) THEN 1 ELSE 0)
       /\ dtor[p] \in {"members", "done"} => (Child(p) => ~Registered(p))
       /\ (status[p] = "dying" /\ leakCheck /\ trkCur[p] # 0) => dtor[p] \in {"impl", "failed"}

\* with the leak check disabled a child pool with bytes left in its tracker
\* has been destroyed and is out of the registry, and the root, with bytes
\* left too, has run its destruction callback
C12_Witness ==
  /\ ~leakCheck
  /\ \E p \in PoolIds : Child(p) /\ status[p] = "dead" /\ trkCur[p] # 0 /\ ~Registered(p)
  /\ status[0] = "dead" /\ trkCur[0] # 0 /\ cbRuns[0] = 1

RECURSIVE LargestPowerOfTwo(_)
\* the largest power of two that is at most size, for a size of one or more
LargestPowerOfTwo(size) == IF size = 1 THEN 1 ELSE 2 * LargestPowerOfTwo(size \div 2)

\* the rule of reference for getPreferredSize; pow * 1.5 is written 3 * pow / 2
PreferredSizeRule(size) ==
  IF size < 8 THEN 8
  ELSE LET pow == LargestPowerOfTwo(size)
       IN IF size = pow THEN size
          ELSE IF 2 * size <= 3 * pow THEN (3 * pow) \div 2
          ELSE 2 * pow

\* C13: for every size of the range getPreferredSize(size) is what the rule of
\* reference gives, is at least size, and is a fixed point of getPreferredSize.
C13_PreferredSizeRule ==
  preferred.size # None =>
    /\ preferred.result = PreferredSizeRule(preferred.size)
    /\ preferred.result >= preferred.size
    /\ getPreferredSize(preferred.result) = preferred.result

\* getPreferredSize(25) has given 32 (above one and a half times 16)
C13_Witness == preferred.size = 25 /\ preferred.result = 32

\* C14: in every state, the steps of a reserve that is rolled back included,
\* the manager's used is at least the bytes of the reservations that succeeded
\* and are not released, used is not negative, and no release has raised the
\* manager's InvariantViolation.
C14_UsedCoversOutstanding ==
  /\ used >= Outstanding
  /\ used >= 0
  /\ \A t \in Threads : result[t] # "InvariantViolation"

\* C15: a reserve whose tracker update is rejected by a capacity, at the
\* pool's own tracker or at an ancestor's, ends with that failure and has
\* changed nothing: no tracker's current bytes, not the pool's local usage,
\* not the manager's used.
C15_TrackerRejectionLeavesState ==
  \A t \in Threads :
    (Finished(t) /\ call[t].op = "reserve" /\ call[t].capped) =>
      /\ result[t] = "TrackerCapacityExceeded"
      /\ dUsed[t] = 0
      /\ dLocal[t] = 0
      /\ \A q \in PoolIds : dTrk[t][q] = 0

\* C16: under reserve and release, denied and rolled-back reserves included,
\* every tracker's current bytes are at least zero and at most its maximum in
\* every state, and no step lowers a tracker's maximum or its cumulative
\* bytes.
C16_TrackerCounters ==
  /\ [](\A p \in PoolIds : trkCur[p] >= 0 /\ trkMax[p] >= trkCur[p])
  /\ [][\A p \in PoolIds : trkMax'[p] >= trkMax[p] /\ trkCum'[p] >= trkCum[p]]_vars

\* a reserve has been denied and rolled back, and a tracker that still has the
\* bytes of another reservation in use has a maximum above them
C16_Witness ==
  /\ \E t \in Threads :
       /\ Finished(t) /\ call[t].op = "reserve" /\ call[t].denied
       /\ result[t] = "CapacityExceeded"
       /\ \A q \in PoolIds : dTrk[t][q] = 0
  /\ \E p \in PoolIds : trkCur[p] > 0 /\ trkMax[p] > trkCur[p] /\ trkCum[p] = trkMax[p]

RECURSIVE AncestorsOf(_)
\* the pools above pool p
AncestorsOf(p) ==
  IF parentOf[p] = None THEN {} ELSE {parentOf[p]} \cup AncestorsOf(parentOf[p])

\* what a call on pool P may change: the local usage of P, the tracker
\* counters of P and of the pools above it
FrameOf(P) ==
  /\ \A q \in PoolIds \ {P} : localCur'[q] = localCur[q]
  /\ \A q \in PoolIds \ ({P} \cup AncestorsOf(P)) :
       /\ localCur'[q] = localCur[q]
       /\ subtreeCur'[q] = subtreeCur[q]
       /\ trkCur'[q] = trkCur[q] /\ trkMax'[q] = trkMax[q] /\ trkCum'[q] = trkCum[q]
       /\ getCurrentBytes(q)' = getCurrentBytes(q)

\* C17: every step of a reserve, release, allocate or free on pool P, the
\* steps of the reserve and the release inside them included, changes local
\* usage only of P and tracker counters only of P and its ancestors; for the
\* pools of a subtree apart from them local usage, subtree usage, tracker
\* counters and getCurrentBytes() stay as they are, whatever the other thread
\* does between the steps.
C17_DisjointSubtreeUnchanged ==
  [][\A t \in Threads : (todo'[t] # todo[t]) => FrameOf(call'[t].pool)]_vars

\* two threads are in the middle of calls on pools of different subtrees,
\* both with their trackers and local usage charged
C17_Witness ==
  \E t, u \in Threads :
    /\ ~Idle(t) /\ ~Idle(u)
    /\ Pool(u) \notin ({Pool(t)} \cup AncestorsOf(Pool(t)))
    /\ Pool(t) \notin ({Pool(u)} \cup AncestorsOf(Pool(u)))
    /\ dTrk[t][Pool(t)] > 0 /\ dLocal[t] > 0
    /\ dTrk[u][Pool(u)] > 0 /\ dLocal[u] > 0
    /\ \A q \in AncestorsOf(Pool(t)) \ AncestorsOf(Pool(u)) : trkCur[q] = dTrk[t][q]

\* C18: in every interleaving of addChild and dropped references a pool is
\* alive while a pool below it is alive or being destroyed; a pool whose
\* destructor has started has no child left that is not destroyed and out of
\* its registry; the check of ~MemoryPool that children_ is empty never fails.
C18_ParentOutlivesChildren ==
  /\ "childrenNotEmpty" \notin fatal
  /\ \A c \in PoolIds :
       Child(c) =>
         /\ status[c] \in {"alive", "dying"} =>
              \A p \in AncestorsOf(c) : status[p] = "alive" /\ refs[p] > 0
         /\ status[parentOf[c]] \in {"dying", "dead"} =>
              (status[c] = "dead" /\ ~Registered(c))

\* a pool that no caller holds any more is alive because its child is, the
\* child itself kept alive only by a child of its own
C18_Witness ==
  \E c, d \in PoolIds :
    /\ Child(c) /\ Child(d) /\ parentOf[d] = c /\ parentOf[c] = 0
    /\ status[d] = "alive" /\ ext[d] > 0
    /\ ext[c] = 0 /\ status[c] = "alive"
    /\ ext[0] = 0 /\ status[0] = "alive"

\* the ways an operation ends: normally, or with one of the typed failures
Outcomes == {"ok", "CapacityExceeded", "AllocationFailure", "InvariantViolation",
             "TrackerCapacityExceeded"}

\* no thread is inside a call
AllReturned == \A t \in Threads : Idle(t) /\ visit[t].pc = "idle"

\* C19: under fair scheduling of the threads that are inside reserve, release,
\* allocate, free, getCurrentBytes, visitChildren (whose visitor calls addChild
\* and drops pools, whose destructors call dropChild), every call that has
\* begun completes, normally or with a typed failure, whether or not another
\* call ever begins: a denied reservation does not wait for a release, and no
\* thread waits for childrenMutex_ or subtreeUsageMutex_ for ever; once all
\* calls have returned no lock is held.
C19_CallsComplete ==
  /\ [](\A t \in Threads : Finished(t) => result[t] \in Outcomes)
  /\ [](AllReturned => \A p \in PoolIds : readers[p] = {} /\ subtreeLock[p] = {})
  /\ <>[]AllReturned

\* a reservation was denied and its call has ended with CapacityExceeded while
\* the bytes that fill the quota are still reserved, a thread is inside
\* visitChildren, and a child pool has been destroyed
C19_Witness ==
  /\ \E t \in Threads : Finished(t) /\ call[t].op = "reserve" /\ call[t].denied
                        /\ result[t] = "CapacityExceeded"
  /\ \E p \in PoolIds : held[p][MaxSize] > 0
  /\ \E t \in Threads : visit[t].pc # "idle"
  /\ \E p \in PoolIds : status[p] = "dead"

\* the pool without a parent
Root == CHOOSE p \in PoolIds : TreeParent[p] = None

\* each pool's tracker holds the local usage of the pool and of its descendants
TrackersAgree ==
  \A p \in PoolIds :
    trkCur[p] = localCur[p] + SumOver(localCur, Descendants(parentOf, p))

\* C20: in every state in which no reserve or release is in progress, reached
\* by successful, denied and rolled-back reserves and matched releases with no
\* tracker capacity, each pool's tracker currentBytes is the sum of the local
\* current bytes of the pool and its descendants, and the root tracker's
\* currentBytes is the manager's used.
C20_ViewsAgree == Quiescent => TrackersAgree /\ trkCur[Root] = used
====
